---- MODULE Spec2Model ----
(***************************************************************************)
(* Model of the SDLC AI extension's pipeline controller                    *)
(* (src/sdlc-ai-extension-master/src/extension.ts, class                   *)
(* SdlcAiViewProvider).  The extension host is a single-threaded event     *)
(* loop: every handler runs atomically up to its next await.  An await of  *)
(* a network request or of the editor surface is a separate step here;     *)
(* the reads of a local document complete within the step that starts them.*)
(***************************************************************************)
EXTENDS Integers, Sequences, FiniteSets, TLC

\* ---------------------------------------------------------------- bounds
MaxCommands == 2        \* webview commands handled in one behaviour

\* ------------------------------------------------------------ JS values
\* The five check boxes of the input form, in document order.
AgentOrder == <<"KnowledgeBase", "Requirements", "Architecture", "Skeletons", "Generator">>
Agents == {AgentOrder[i] : i \in 1..Len(AgentOrder)}

\* Property names of an agent response, in the order Object.keys lists them
\* (integer-like keys first, then insertion order).
KeyOrder == <<"0", "t1", "t2">>
TaskNames == {"t1", "t2"}
Values == {"raw", "edited"}
\* The value a validateTask command carries.
Corrections == {"edited"}

NoKeys == [k \in {} |-> "raw"]
Undefined == [t |-> "undefined", m |-> NoKeys]
JNull == [t |-> "null", m |-> NoKeys]
JNumber == [t |-> "number", m |-> NoKeys]
Obj(m) == [t |-> "object", m |-> m]
Arr(m) == [t |-> "array", m |-> m]

\* What the agent service answers to a successful request.
RawOutput == Obj([k \in TaskNames |-> "raw"])

\* this.agentOutputs = {}
EmptyOutputs == [a \in Agents |-> Undefined]

\* --------------------------------------------------------- conversions
\* A document is either text that denotes a JSON value or text with a
\* syntax error.
Garbage == [k |-> "garbage", v |-> Undefined]
JSONStringify(v) == [k |-> "json", v |-> v]
JSONParse(text) == IF text.k = "json" THEN [ok |-> TRUE, value |-> text.v]
                   ELSE [ok |-> FALSE, value |-> Undefined]

\* Object.keys(v): throws on null and undefined, is empty for a number.
ObjectKeysThrows(v) == v.t \in {"null", "undefined"}
ObjectKeys(v) == SelectSeq(KeyOrder, LAMBDA k : k \in DOMAIN v.m)

\* A store that creates the missing entry instead of throwing.
CanAssignCreating(target) == target.t \in {"object", "array", "undefined"}

\* target[key] = value: throws a TypeError on undefined, null and (strict
\* mode) on a primitive.
CanAssign(target) == target.t \in {"object", "array"}
\* An assignment that replaces the target's properties by the one assigned.
AssignKeyReplacing(target, key, value) ==
  [target EXCEPT !.m = [k \in {key} |-> value]]

AssignKey(target, key, value) ==
  [target EXCEPT !.m = [k \in (DOMAIN target.m) \cup {key} |->
                          IF k = key THEN value ELSE target.m[k]]]

\* What the human may leave in the editor when pressing Validate, besides
\* the text the extension wrote.
Edits ==
  {Garbage, JSONStringify(JNull), JSONStringify(JNumber),
   JSONStringify(Arr([k \in {"0"} |-> "edited"])),
   JSONStringify(Obj([k \in {"t1"} |-> "edited"]))}

\* ------------------------------------------------------- agent sequences
\* The selections a startAgents command may carry: the checked boxes,
\* collected in document order.
AgentSelections ==
  {<<>>, <<"Requirements">>, <<"Architecture">>,
   <<"KnowledgeBase", "Requirements">>, <<"Requirements", "Architecture">>}

\* The predecessors whose stored output each agent's request carries.
Predecessors(agent) ==
  CASE agent = "Architecture" -> {"Requirements", "KnowledgeBase"}
    [] agent = "Skeletons" -> {"Architecture"}
    [] agent = "Generator" -> {"Architecture", "Skeletons"}
    [] OTHER -> {}

\* The request body of callApiEndpoint('/agent/...').
Payload(agent, inputs, outs) ==
  [agent |-> agent, inputs |-> inputs,
   deps |-> [p \in Predecessors(agent) |-> outs[p]]]

\* ------------------------------------------------------------------ state
VARIABLES
  agentOutputs,       \* this.agentOutputs: agent -> response (or Undefined)
  agentSequence,      \* this.agentSequence
  currentAgentIndex,  \* this.currentAgentIndex (0-based, -1 before a run)
  initialInputs,      \* this.initialInputs (Null until the first start)
  tempFilePaths,      \* this.tempFilePaths: agent -> text written to its file
  invocations,        \* processNextAgent calls suspended at an await
  validatePrompts,    \* open 'Validate' notifications
  continuePrompts,    \* open 'Continue' notifications
  validations,        \* validateCurrentAgentOutput calls suspended at a request
  taskCalls,          \* validateTask commands suspended at their request
  posted,             \* what the latest step posted to the webview or showed as an error
  run,                \* number of startAgents commands handled so far
  nCommands,          \* number of webview commands handled so far
  completionPanel,    \* webview: the completion panel with the reset button is shown
  returned,           \* agents whose invocation has returned a response
  validatedAgents,    \* agents with agentValidated posted since the last start
  acked,              \* <<agent, task, value>> with taskValidated posted since the last start
  finalized,          \* agent -> its output as validated and corrected since the last start
  completions,        \* number of agentsCompleted posted since the last start
  dismissedAt,        \* nCommands when the prompt of the current position was last dismissed, or -1
  log                 \* the messages posted so far, kept for a run without failures

vars == <<agentOutputs, agentSequence, currentAgentIndex, initialInputs,
          tempFilePaths, invocations, validatePrompts, continuePrompts,
          validations, taskCalls, posted, run, nCommands, completionPanel,
          returned, validatedAgents, acked, finalized, completions,
          dismissedAt, log>>

\* The fields and suspended calls of the extension host.
host == <<agentOutputs, agentSequence, currentAgentIndex, initialInputs,
          tempFilePaths, invocations, validatePrompts, continuePrompts,
          validations, taskCalls>>

Null == [requirements |-> "null", agents |-> <<>>]
NoFile == [k |-> "nofile", v |-> Undefined]

\* A message posted to the webview, or an error notification.
Ev(command, agent, task, text) ==
  [command |-> command, agent |-> agent, task |-> task, text |-> text,
   agents |-> <<>>]

\* postMessage({ command: 'setAgentSequence', agents })
SetAgentSequence(agents) ==
  [Ev("setAgentSequence", "-", "-", "-") EXCEPT !.agents = agents]

Init ==
  /\ agentOutputs = EmptyOutputs
  /\ agentSequence = <<>>
  /\ currentAgentIndex = -1
  /\ initialInputs = Null
  /\ tempFilePaths = [a \in Agents |-> NoFile]
  /\ invocations = {}
  /\ validatePrompts = {}
  /\ continuePrompts = {}
  /\ validations = {}
  /\ taskCalls = {}
  /\ posted = <<>>
  /\ run = 0
  /\ nCommands = 0
  /\ completionPanel = FALSE
  /\ returned = {}
  /\ validatedAgents = {}
  /\ acked = {}
  /\ finalized = EmptyOutputs
  /\ completions = 0
  /\ dismissedAt = -1
  /\ log = <<>>

\* A suspended validateCurrentAgentOutput whose updatedOutput is still the
\* object held in the store sees the store's mutations; once the store
\* entry is replaced it keeps the object it had.
Detach(vs, agts) ==
  {IF v.aliased /\ v.agent \in agts
     THEN [v EXCEPT !.aliased = FALSE, !.local = agentOutputs[v.agent]]
     ELSE v : v \in vs}

\* processNextAgent, run up to its first await.  idx, seq, inputs and outs
\* are the fields as the caller left them, evs what the caller has posted
\* already; thrown is what the caller's catch posts when processNextAgent
\* throws.
ProcessNextAgent(idx, seq, inputs, outs, evs, runTag, thrown) ==
  /\ currentAgentIndex' = idx + 1
  /\ IF inputs = Null
       THEN /\ posted' = evs \o thrown
            /\ invocations' = invocations
       ELSE IF idx + 1 >= Len(seq)
         THEN /\ posted' = Append(evs, Ev("agentsCompleted", "-", "-", "-"))
              /\ invocations' = invocations
         ELSE LET agent == seq[idx + 2] IN
              /\ posted' = Append(evs, Ev("agentStarted", agent, "-", "-"))
              /\ invocations' = invocations \cup
                   {[agent |-> agent, run |-> runTag, pc |-> "call",
                     payload |-> Payload(agent, inputs, outs),
                     json |-> NoFile]}

\* A start that keeps the outputs of the run before it.
StartAgentsKeepingOutputs(agents, requirements) ==
  /\ nCommands < MaxCommands
  /\ nCommands' = nCommands + 1
  /\ run' = run + 1
  /\ initialInputs' = [requirements |-> requirements, agents |-> agents]
  /\ agentSequence' = agents
  /\ agentOutputs' = agentOutputs
  /\ tempFilePaths' = [a \in Agents |-> NoFile]
  /\ validations' = validations
  /\ ProcessNextAgent(-1, agents,
                      [requirements |-> requirements, agents |-> agents],
                      agentOutputs,
                      <<SetAgentSequence(agents)>>,
                      run + 1, <<>>)
  /\ validatedAgents' = {}
  /\ acked' = {}
  /\ UNCHANGED <<validatePrompts, continuePrompts, taskCalls, returned>>

\* case 'startAgents'
StartAgents(agents, requirements) ==
  /\ nCommands < MaxCommands
  /\ nCommands' = nCommands + 1
  /\ run' = run + 1
  /\ initialInputs' = [requirements |-> requirements, agents |-> agents]
  /\ agentSequence' = agents
  /\ agentOutputs' = EmptyOutputs
  /\ tempFilePaths' = [a \in Agents |-> NoFile]
  /\ validations' = Detach(validations, Agents)
  /\ ProcessNextAgent(-1, agents,
                      [requirements |-> requirements, agents |-> agents],
                      EmptyOutputs,
                      <<SetAgentSequence(agents)>>,
                      run + 1, <<>>)
  /\ validatedAgents' = {}
  /\ acked' = {}
  /\ UNCHANGED <<validatePrompts, continuePrompts, taskCalls, returned>>

\* case 'continueAgent'
ContinueAgent ==
  /\ nCommands < MaxCommands
  /\ nCommands' = nCommands + 1
  /\ ProcessNextAgent(currentAgentIndex, agentSequence, initialInputs,
                      agentOutputs, <<>>, run,
                      <<Ev("error", "-", "-",
                           "Failed to process request: Initial inputs not set")>>)
  /\ UNCHANGED <<agentOutputs, agentSequence, initialInputs, tempFilePaths,
                 validatePrompts, continuePrompts, validations, taskCalls,
                 run, returned, validatedAgents, acked>>

\* callApiEndpoint('/agent/...') resolves: lines 185-189 up to the await
\* inside openOutputInEditor.
InvokeReturn(inv, output) ==
  /\ inv \in invocations /\ inv.pc = "call"
  /\ agentOutputs' = [agentOutputs EXCEPT ![inv.agent] = output]
  /\ validations' = Detach(validations, {inv.agent})
  /\ invocations' = (invocations \ {inv}) \cup
       {[inv EXCEPT !.pc = "editor", !.json = JSONStringify(output),
                    !.payload = Payload("-", Null, EmptyOutputs)]}
  /\ returned' = returned \cup {inv.agent}
  /\ posted' = <<>>
  /\ UNCHANGED <<agentSequence, currentAgentIndex, initialInputs,
                 tempFilePaths, validatePrompts, continuePrompts, taskCalls,
                 run, nCommands, validatedAgents, acked>>

\* A catch that logs the failure to the console only.
InvokeFailSilent(inv) ==
  /\ inv \in invocations /\ inv.pc = "call"
  /\ invocations' = invocations \ {inv}
  /\ posted' = <<>>
  /\ UNCHANGED <<agentOutputs, agentSequence, currentAgentIndex,
                 initialInputs, tempFilePaths, validatePrompts,
                 continuePrompts, validations, taskCalls, run, nCommands,
                 returned, validatedAgents, acked>>

\* callApiEndpoint('/agent/...') throws (transport error or !res.ok): the
\* catch of processNextAgent.
InvokeFail(inv) ==
  /\ inv \in invocations /\ inv.pc = "call"
  /\ invocations' = invocations \ {inv}
  /\ posted' = <<Ev("error", inv.agent, "-", "Agent failed: API call failed")>>
  /\ UNCHANGED <<agentOutputs, agentSequence, currentAgentIndex,
                 initialInputs, tempFilePaths, validatePrompts,
                 continuePrompts, validations, taskCalls, run, nCommands,
                 returned, validatedAgents, acked>>

\* openOutputInEditor completes: the file is written and its path recorded
\* (line 222), the document is shown, the 'Validate' notification is raised
\* (line 229), and processNextAgent posts validateAgent (line 192).
EditorShow(inv) ==
  /\ inv \in invocations /\ inv.pc = "editor"
  /\ invocations' = invocations \ {inv}
  /\ tempFilePaths' = [tempFilePaths EXCEPT ![inv.agent] = inv.json]
  /\ validatePrompts' = validatePrompts \cup
       {[agent |-> inv.agent, run |-> inv.run]}
  /\ posted' = <<Ev("validateAgent", inv.agent, "-", "-")>>
  /\ UNCHANGED <<agentOutputs, agentSequence, currentAgentIndex,
                 initialInputs, continuePrompts, validations, taskCalls,
                 run, nCommands, returned, validatedAgents, acked>>

\* openOutputInEditor rethrows a file-system or editor error: the catch of
\* processNextAgent.
EditorFail(inv) ==
  /\ inv \in invocations /\ inv.pc = "editor"
  /\ invocations' = invocations \ {inv}
  /\ posted' = <<Ev("error", inv.agent, "-", "Agent failed: editor error")>>
  /\ UNCHANGED <<agentOutputs, agentSequence, currentAgentIndex,
                 initialInputs, tempFilePaths, validatePrompts,
                 continuePrompts, validations, taskCalls, run, nCommands,
                 returned, validatedAgents, acked>>

\* A validation that offers 'Continue' without telling the webview.
AgentValidatedUnannounced(v, evs) ==
  /\ posted' = evs
  /\ continuePrompts' = continuePrompts \cup
       {[agent |-> v.agent, run |-> v.run]}
  /\ validatedAgents' = validatedAgents \cup {v.agent}

\* Lines 267-278: agentValidated is posted and 'Continue' is offered.
AgentValidated(v, evs) ==
  /\ posted' = Append(evs, Ev("agentValidated", v.agent, "-", "-"))
  /\ continuePrompts' = continuePrompts \cup
       {[agent |-> v.agent, run |-> v.run]}
  /\ validatedAgents' = validatedAgents \cup {v.agent}

\* The catch of lines 279-285.
InvalidJSON(evs, message) ==
  /\ posted' = Append(evs, Ev("showErrorMessage", "-", "-",
                              "Invalid JSON format: " \o message))
  /\ UNCHANGED <<continuePrompts, validatedAgents>>

\* The human picks 'Validate' with some text left in the editor:
\* validateCurrentAgentOutput (lines 244-264) up to the request of the
\* first validateTask.
ClickValidate(p, content) ==
  /\ p \in validatePrompts
  /\ validatePrompts' = validatePrompts \ {p}
  /\ content \in {tempFilePaths[p.agent]} \cup Edits
  /\ LET v == [agent |-> p.agent, run |-> p.run, aliased |-> TRUE,
               local |-> Undefined, keys |-> <<>>, idx |-> 0, value |-> "-"]
         parsed == JSONParse(content)
         updatedOutput == parsed.value
         keys == ObjectKeys(updatedOutput)
         others == Detach(validations, {p.agent})
     IN
     IF tempFilePaths[p.agent] = NoFile
       THEN /\ posted' = <<Ev("showErrorMessage", p.agent, "-",
                              "Error validating output: No file found for agent")>>
            /\ UNCHANGED <<agentOutputs, validations, continuePrompts,
                           validatedAgents>>
       ELSE IF ~parsed.ok
         THEN /\ InvalidJSON(<<>>, "syntax error")
              /\ UNCHANGED <<agentOutputs, validations>>
         ELSE
           /\ agentOutputs' = [agentOutputs EXCEPT ![p.agent] = updatedOutput]
           /\ IF ObjectKeysThrows(updatedOutput)
                THEN /\ InvalidJSON(<<>>,
                                    "Cannot convert undefined or null to object")
                     /\ validations' = others
                ELSE IF keys = <<>>
                  THEN /\ AgentValidated(v, <<>>)
                       /\ validations' = others
                  ELSE /\ posted' = <<>>
                       /\ UNCHANGED <<continuePrompts, validatedAgents>>
                       /\ validations' = others \cup
                            {[v EXCEPT !.keys = keys, !.idx = 1,
                                       !.value = updatedOutput.m[keys[1]]]}
  /\ UNCHANGED <<agentSequence, currentAgentIndex, initialInputs,
                 tempFilePaths, invocations, taskCalls, run, nCommands,
                 returned, acked>>

\* The human closes the 'Validate' notification without picking it.
DismissValidate(p) ==
  /\ p \in validatePrompts
  /\ validatePrompts' = validatePrompts \ {p}
  /\ posted' = <<>>
  /\ UNCHANGED <<agentOutputs, agentSequence, currentAgentIndex,
                 initialInputs, tempFilePaths, invocations, continuePrompts,
                 validations, taskCalls, run, nCommands, returned,
                 validatedAgents, acked>>

\* The updatedOutput object a suspended validation holds.
UpdatedOutput(v, outs) == IF v.aliased THEN outs[v.agent] ELSE v.local

\* The request of validateTask inside the loop of lines 263-265 succeeds:
\* lines 300-301, then the next task's request or lines 267-278.
TaskAck(v) ==
  /\ v \in validations
  /\ LET target == agentOutputs[v.agent]
         task == v.keys[v.idx]
         outs == [agentOutputs EXCEPT
                    ![v.agent] = AssignKey(target, task, v.value)]
         ack == <<Ev("taskValidated", v.agent, task, "-")>>
     IN
     IF ~CanAssign(target)
       THEN /\ InvalidJSON(<<>>, "Cannot set properties")
            /\ UNCHANGED <<agentOutputs, acked>>
            /\ validations' = validations \ {v}
       ELSE
         /\ agentOutputs' = outs
         /\ acked' = acked \cup {<<v.agent, task, v.value>>}
         /\ IF v.idx < Len(v.keys)
              THEN /\ posted' = ack
                   /\ UNCHANGED <<continuePrompts, validatedAgents>>
                   /\ validations' = (validations \ {v}) \cup
                        {[v EXCEPT !.idx = v.idx + 1,
                                   !.value = UpdatedOutput(v, outs).m[v.keys[v.idx + 1]]]}
              ELSE /\ AgentValidated(v, ack)
                   /\ validations' = validations \ {v}
  /\ UNCHANGED <<agentSequence, currentAgentIndex, initialInputs,
                 tempFilePaths, invocations, validatePrompts, taskCalls,
                 run, nCommands, returned>>

\* A catch that discards the submitted output when one task is rejected.
TaskNackRollsBack(v) ==
  /\ v \in validations
  /\ InvalidJSON(<<>>, "API call failed with status")
  /\ validations' = validations \ {v}
  /\ agentOutputs' = [agentOutputs EXCEPT ![v.agent] = Undefined]
  /\ UNCHANGED <<agentSequence, currentAgentIndex,
                 initialInputs, tempFilePaths, invocations, validatePrompts,
                 taskCalls, run, nCommands, returned, acked>>

\* The request of validateTask inside the loop fails: the catch of lines
\* 279-285.
TaskNack(v) ==
  /\ v \in validations
  /\ InvalidJSON(<<>>, "API call failed with status")
  /\ validations' = validations \ {v}
  /\ UNCHANGED <<agentOutputs, agentSequence, currentAgentIndex,
                 initialInputs, tempFilePaths, invocations, validatePrompts,
                 taskCalls, run, nCommands, returned, acked>>

\* The human picks 'Continue': processNextAgent, whose rejection nobody
\* handles.
ClickContinue(p) ==
  /\ p \in continuePrompts
  /\ continuePrompts' = continuePrompts \ {p}
  /\ ProcessNextAgent(currentAgentIndex, agentSequence, initialInputs,
                      agentOutputs, <<>>, run, <<>>)
  /\ UNCHANGED <<agentOutputs, agentSequence, initialInputs, tempFilePaths,
                 validatePrompts, validations, taskCalls, run, nCommands,
                 returned, validatedAgents, acked>>

\* The human closes the 'Continue' notification without picking it.
DismissContinue(p) ==
  /\ p \in continuePrompts
  /\ continuePrompts' = continuePrompts \ {p}
  /\ posted' = <<>>
  /\ UNCHANGED <<agentOutputs, agentSequence, currentAgentIndex,
                 initialInputs, tempFilePaths, invocations, validatePrompts,
                 validations, taskCalls, run, nCommands, returned,
                 validatedAgents, acked>>

\* case 'validateTask': validateTask up to its request.
ValidateTaskCmd(agentName, taskName, output) ==
  /\ nCommands < MaxCommands
  /\ nCommands' = nCommands + 1
  /\ taskCalls' = taskCalls \cup
       {[id |-> nCommands + 1, agentName |-> agentName,
         taskName |-> taskName, output |-> output]}
  /\ posted' = <<>>
  /\ UNCHANGED <<agentOutputs, agentSequence, currentAgentIndex,
                 initialInputs, tempFilePaths, invocations, validatePrompts,
                 continuePrompts, validations, run, returned,
                 validatedAgents, acked>>

\* A validateTask that stores the service's answer instead of the output.
TaskCmdAckStoringAnswer(c) ==
  /\ c \in taskCalls
  /\ taskCalls' = taskCalls \ {c}
  /\ LET target == agentOutputs[c.agentName] IN
     IF ~CanAssign(target)
       THEN /\ posted' = <<Ev("error", "-", "-",
                 "Failed to process request: Cannot set properties")>>
            /\ UNCHANGED <<agentOutputs, acked>>
       ELSE /\ agentOutputs' = [agentOutputs EXCEPT ![c.agentName] =
                                  AssignKey(target, c.taskName, "validated")]
            /\ acked' = acked \cup {<<c.agentName, c.taskName, c.output>>}
            /\ posted' = <<Ev("taskValidated", c.agentName, c.taskName, "-")>>
  /\ UNCHANGED <<agentSequence, currentAgentIndex, initialInputs,
                 tempFilePaths, invocations, validatePrompts,
                 continuePrompts, validations, run, nCommands, returned,
                 validatedAgents>>

\* The request of a validateTask command succeeds: lines 300-301, or the
\* TypeError of line 300 caught by the message handler.
TaskCmdAck(c) ==
  /\ c \in taskCalls
  /\ taskCalls' = taskCalls \ {c}
  /\ LET target == agentOutputs[c.agentName] IN
     IF ~CanAssign(target)
       THEN /\ posted' = <<Ev("error", "-", "-",
                 "Failed to process request: Cannot set properties")>>
            /\ UNCHANGED <<agentOutputs, acked>>
       ELSE /\ agentOutputs' = [agentOutputs EXCEPT ![c.agentName] =
                                  AssignKey(target, c.taskName, c.output)]
            /\ acked' = acked \cup {<<c.agentName, c.taskName, c.output>>}
            /\ posted' = <<Ev("taskValidated", c.agentName, c.taskName, "-")>>
  /\ UNCHANGED <<agentSequence, currentAgentIndex, initialInputs,
                 tempFilePaths, invocations, validatePrompts,
                 continuePrompts, validations, run, nCommands, returned,
                 validatedAgents>>

\* The request of a validateTask command fails: the catch of the message
\* handler.
TaskCmdNack(c) ==
  /\ c \in taskCalls
  /\ taskCalls' = taskCalls \ {c}
  /\ posted' = <<Ev("error", "-", "-",
       "Failed to process request: API call failed with status")>>
  /\ UNCHANGED <<agentOutputs, agentSequence, currentAgentIndex,
                 initialInputs, tempFilePaths, invocations, validatePrompts,
                 continuePrompts, validations, run, nCommands, returned,
                 validatedAgents, acked>>

\* The text of the input form's requirements field.
RequirementTexts == {"req"}

Posts(evs, command, agent) ==
  \E i \in 1..Len(evs) : evs[i].command = command /\ evs[i].agent = agent

\* The webview's message listener: agentsCompleted shows the completion
\* panel, which holds the reset button.
WebviewReceives ==
  completionPanel' = (completionPanel \/ Posts(posted', "agentsCompleted", "-"))

\* What review has made of each agent's output: the stored output when
\* agentValidated is posted, then every acknowledged validateTask command
\* for it; a start forgets it.
Finalize ==
  finalized' =
    [a \in Agents |->
       IF run' # run THEN Undefined
       ELSE IF Posts(posted', "agentValidated", a) THEN agentOutputs'[a]
       ELSE IF /\ a \in validatedAgents
               /\ Posts(posted', "taskValidated", a)
               /\ \E c \in taskCalls \ taskCalls' : c.agentName = a
         THEN LET c == CHOOSE c \in taskCalls \ taskCalls' : c.agentName = a
              IN AssignKey(finalized[a], c.taskName, c.output)
         ELSE finalized[a]]

\* Line 124: the agentsCompleted messages of the run are counted.
CountCompletions ==
  completions' =
    (IF run' # run THEN 0 ELSE completions)
      + Cardinality({i \in 1..Len(posted') :
                       posted'[i].command = "agentsCompleted"})

\* A notification of the current run for the agent at the current position
\* is closed and its .then callback (lines 230-235, 275-277) does nothing.
Dismissed ==
  /\ currentAgentIndex \in 0..(Len(agentSequence) - 1)
  /\ \E p \in (validatePrompts \ validatePrompts')
                \cup (continuePrompts \ continuePrompts') :
       p.run = run /\ p.agent = agentSequence[currentAgentIndex + 1]
  /\ posted' = <<>>
  /\ validations' = validations
  /\ currentAgentIndex' = currentAgentIndex

\* The dismissal is remembered until the next webview command.
NoteDismissal ==
  dismissedAt' = IF nCommands' # nCommands THEN -1
                 ELSE IF Dismissed THEN nCommands
                 ELSE dismissedAt

\* What the webview and the human at the editor see of a step.
Observed == WebviewReceives /\ Finalize /\ CountCompletions /\ NoteDismissal

\* A step of the extension host as the webview and the human at the editor see it.
HostStep(A) == A /\ Observed /\ UNCHANGED log

\* resetProcess of the webview script: the panels are hidden and the input
\* form is shown again; nothing is posted to the extension.
ResetProcess ==
  /\ completionPanel
  /\ completionPanel' = FALSE
  /\ UNCHANGED <<host, posted, run, nCommands, returned, validatedAgents,
                 acked, finalized, completions, dismissedAt, log>>

Next ==
  \/ \E agents \in AgentSelections, r \in RequirementTexts :
       HostStep(StartAgents(agents, r))
  \/ HostStep(ContinueAgent)
  \/ \E inv \in invocations : HostStep(InvokeReturn(inv, RawOutput))
  \/ \E inv \in invocations : HostStep(InvokeFail(inv))
  \/ \E inv \in invocations : HostStep(EditorShow(inv))
  \/ \E inv \in invocations : HostStep(EditorFail(inv))
  \/ \E p \in validatePrompts :
       \E content \in {tempFilePaths[p.agent]} \cup Edits :
         HostStep(ClickValidate(p, content))
  \/ \E p \in validatePrompts : HostStep(DismissValidate(p))
  \/ \E v \in validations : HostStep(TaskAck(v))
  \/ \E v \in validations : HostStep(TaskNack(v))
  \/ \E p \in continuePrompts : HostStep(ClickContinue(p))
  \/ \E p \in continuePrompts : HostStep(DismissContinue(p))
  \/ \E a \in Agents, t \in TaskNames, o \in Corrections :
       HostStep(ValidateTaskCmd(a, t, o))
  \/ \E c \in taskCalls : HostStep(TaskCmdAck(c))
  \/ \E c \in taskCalls : HostStep(TaskCmdNack(c))
  \/ ResetProcess

Spec == Init /\ [][Next]_vars

\* ------------------------------------------------- a run without failures
\* The texts whose submission passes JSON.parse and Object.keys.
Accepted(content) ==
  JSONParse(content).ok /\ ~ObjectKeysThrows(JSONParse(content).value)

\* A step of the extension host with its messages recorded.
LoggedStep(A) == A /\ Observed /\ log' = log \o posted'

\* One startAgents command, every request answered with success, and a
\* human who picks 'Validate' on text that parses and then 'Continue'.
HappyNext ==
  \/ \E agents \in AgentSelections, r \in RequirementTexts :
       run = 0 /\ LoggedStep(StartAgents(agents, r))
  \/ \E inv \in invocations : LoggedStep(InvokeReturn(inv, RawOutput))
  \/ \E inv \in invocations : LoggedStep(EditorShow(inv))
  \/ \E p \in validatePrompts :
       \E content \in {tempFilePaths[p.agent]} \cup Edits :
         Accepted(content) /\ LoggedStep(ClickValidate(p, content))
  \/ \E v \in validations : LoggedStep(TaskAck(v))
  \/ \E p \in continuePrompts : LoggedStep(ClickContinue(p))

HappySpec == Init /\ [][HappyNext]_vars

\* Every pending request is eventually answered with success, the editor
\* eventually opens, and the human eventually picks 'Validate' on text that
\* parses and then 'Continue'.
HappyFairness ==
  /\ WF_vars(\E inv \in invocations : LoggedStep(InvokeReturn(inv, RawOutput)))
  /\ WF_vars(\E inv \in invocations : LoggedStep(EditorShow(inv)))
  /\ WF_vars(\E p \in validatePrompts :
               \E content \in {tempFilePaths[p.agent]} \cup Edits :
                 Accepted(content) /\ LoggedStep(ClickValidate(p, content)))
  /\ WF_vars(\E v \in validations : LoggedStep(TaskAck(v)))
  /\ WF_vars(\E p \in continuePrompts : LoggedStep(ClickContinue(p)))

LiveSpec == HappySpec /\ HappyFairness

\* ----------------------------------------------------------------- claims
\* The step dispatches an agent at a position after the first.
DispatchesNext ==
  /\ \E inv \in invocations' \ invocations : inv.pc = "call"
  /\ currentAgentIndex' >= 1

\* C1: the agent at position i+1 is dispatched only after agent i's reviewed
\* output has been submitted and validated (agentValidated posted for it).
C1_DispatchOnlyAfterReview ==
  [][DispatchesNext =>
       agentSequence[currentAgentIndex'] \in validatedAgents]_vars

C3_PredecessorsFinalized ==
  \A inv \in invocations :
    inv.pc = "call" =>
      \A q \in Predecessors(inv.agent) :
        inv.payload.deps[q] # Undefined /\ q \in validatedAgents

\* C4: within one run no two agent requests are in flight at once.
C4_OneRequestInFlight ==
  \A i1, i2 \in invocations :
    (i1.pc = "call" /\ i2.pc = "call" /\ i1.run = i2.run) => i1 = i2

\* The request of inv ends in this step without a response.
RequestFailed(inv) ==
  /\ inv \in invocations /\ inv.pc = "call"
  /\ \A j \in invocations' : ~(j.agent = inv.agent /\ j.run = inv.run)

Malformed ==
  {Garbage, JSONStringify(JNull), JSONStringify(JNumber),
   JSONStringify(Arr([k \in {"0"} |-> "edited"]))}

\* C6: a submission whose text cannot be parsed back into a mapping of tasks
\* leaves the position and the store as they were, sends no validation
\* request and posts no agentValidated.
C6_MalformedChangesNothing ==
  [][\A p \in validatePrompts : \A c \in Malformed :
       (tempFilePaths[p.agent] # NoFile /\ ClickValidate(p, c)) =>
         /\ agentOutputs' = agentOutputs
         /\ currentAgentIndex' = currentAgentIndex
         /\ validations' = validations
         /\ ~Posts(posted', "agentValidated", p.agent)]_vars

\* C7: a failed validation of one task produces exactly one failure event,
\* which names the agent and the task and is not reported as another kind
\* of error.
C7_ValidationFailureNamesTask ==
  [][\A v \in validations :
       TaskNack(v) =>
         /\ Len(posted') = 1
         /\ posted'[1].agent = v.agent
         /\ posted'[1].task = v.keys[v.idx]
         /\ posted'[1].text # "Invalid JSON format: API call failed with status"]_vars

\* The submission v ends in this step with an error shown to the human.
SubmissionFailed(v) ==
  /\ v \in validations
  /\ \A w \in validations' : ~(w.agent = v.agent /\ w.run = v.run)
  /\ \E i \in 1..Len(posted') : posted'[i].command = "showErrorMessage"

\* C8: when a task fails validation the position does not change, no
\* agentValidated is posted, nothing is dispatched, and the values and
\* acknowledgments of the sibling tasks stand.
C8_FailedValidationKeepsSiblings ==
  [][\A v \in validations :
       SubmissionFailed(v) =>
         /\ currentAgentIndex' = currentAgentIndex
         /\ ~Posts(posted', "agentValidated", v.agent)
         /\ validatedAgents' = validatedAgents
         /\ invocations' = invocations
         /\ continuePrompts' = continuePrompts
         /\ agentOutputs' = agentOutputs
         /\ acked' = acked]_vars

\* The second task of an agent has just been rejected; the first task's
\* acknowledgment and both stored values stand.
C8_Witness ==
  \E a \in Agents :
    /\ posted = <<Ev("showErrorMessage", "-", "-",
                     "Invalid JSON format: API call failed with status")>>
    /\ <<a, "t1", "raw">> \in acked
    /\ <<a, "t2", "raw">> \notin acked
    /\ agentOutputs[a] = RawOutput
    /\ a \notin validatedAgents
    /\ \A v \in validations : v.agent # a

\* C9: after a submission with a syntax error the review of that agent stays
\* open: the human can submit again.
C9_GateStaysOpen ==
  [][\A p \in validatePrompts :
       (tempFilePaths[p.agent] # NoFile /\ ClickValidate(p, Garbage)) =>
         \E q \in validatePrompts' : q.agent = p.agent]_vars

\* C10: after a task has failed validation the human can resubmit the
\* agent's output.
C10_RetryAfterFailedValidation ==
  [][\A v \in validations :
       TaskNack(v) => \E q \in validatePrompts' : q.agent = v.agent]_vars

\* The run has just failed at the agent of the current position: the error
\* for it is the latest message, it has no entry and no request of the run
\* is pending.
RunFailed ==
  /\ currentAgentIndex \in 0..(Len(agentSequence) - 1)
  /\ posted = <<Ev("error", agentSequence[currentAgentIndex + 1], "-",
                   "Agent failed: API call failed")>>
  /\ agentOutputs[agentSequence[currentAgentIndex + 1]] = Undefined
  /\ \A inv \in invocations : inv.run # run

\* The run has just completed: agentsCompleted is in the latest messages.
RunCompleted ==
  /\ Posts(posted, "agentsCompleted", "-")
  /\ currentAgentIndex >= Len(agentSequence)

\* A webview command other than startAgents is handled.
OtherCommand == nCommands' # nCommands /\ run' = run

\* C11: once a run has completed or failed, no command other than
\* startAgents dispatches an agent, moves the position or posts
\* agentsCompleted again.
C11_TerminalStates ==
  [][(RunFailed \/ RunCompleted) /\ OtherCommand =>
       /\ currentAgentIndex' = currentAgentIndex
       /\ invocations' = invocations
       /\ ~Posts(posted', "agentsCompleted", "-")]_vars

\* C12: whenever agentsCompleted is posted, the store holds an entry for
\* exactly the agents of the sequence and every task value in it has been
\* acknowledged by the validation service.
C12_CompletedStoreComplete ==
  Posts(posted, "agentsCompleted", "-") =>
    \A a \in Agents :
      /\ (agentOutputs[a] # Undefined) <=>
           (\E i \in 1..Len(agentSequence) : agentSequence[i] = a)
      /\ \A k \in DOMAIN agentOutputs[a].m :
           <<a, k, agentOutputs[a].m[k]>> \in acked

\* C13: when an agent is dispatched and a predecessor of it has been
\* reviewed and validated in this run, the request carries that
\* predecessor's finalized value: the validated submission with every later
\* acknowledged correction, not the response first returned.
C13_PayloadCarriesFinalized ==
  [][\A inv \in invocations' \ invocations :
       inv.pc = "call" /\ run' = run =>
         \A q \in Predecessors(inv.agent) \cap validatedAgents :
           inv.payload.deps[q] = finalized[q]]_vars

\* The lifecycle messages of a run over seq, in the order the claim gives.
RECURSIVE PerAgent(_)
PerAgent(seq) ==
  IF seq = <<>> THEN <<>>
  ELSE <<Ev("agentStarted", Head(seq), "-", "-"),
         Ev("validateAgent", Head(seq), "-", "-"),
         Ev("agentValidated", Head(seq), "-", "-")>> \o PerAgent(Tail(seq))
Lifecycle(seq) ==
  <<SetAgentSequence(seq)>> \o PerAgent(seq)
    \o <<Ev("agentsCompleted", "-", "-", "-")>>

\* The messages recorded, without the per-task acknowledgments.
LoggedLifecycle == SelectSeq(log, LAMBDA e : e.command # "taskValidated")

\* C14: in a run where every request succeeds and the human validates and
\* continues each agent, the messages are setAgentSequence, then per agent
\* agentStarted, validateAgent, agentValidated in sequence order, then one
\* agentsCompleted: what has been posted is always a prefix of that.
C14_LifecycleOrder ==
  /\ Len(LoggedLifecycle) <= Len(Lifecycle(agentSequence))
  /\ \A i \in 1..Len(LoggedLifecycle) :
       LoggedLifecycle[i] = Lifecycle(agentSequence)[i]

\* A run over two agents has posted its whole lifecycle.
C14_Witness ==
  /\ Len(agentSequence) = 2
  /\ LoggedLifecycle = Lifecycle(agentSequence)

\* C15: startAgents is accepted in every state and begins a fresh run: the
\* recorded inputs and sequence are the command's, the store is empty, the
\* whole sequence is posted before any dispatch message of the new run, and
\* the agent dispatched first is the one at position 0.
C15_StartBeginsFreshRun ==
  /\ [](nCommands < MaxCommands =>
          \A agents \in AgentSelections, r \in RequirementTexts :
            ENABLED HostStep(StartAgents(agents, r)))
  /\ [][\A agents \in AgentSelections, r \in RequirementTexts :
          StartAgents(agents, r) =>
            /\ initialInputs' = [requirements |-> r, agents |-> agents]
            /\ agentSequence' = agents]_vars
  /\ [][run' # run =>
          /\ agentOutputs' = EmptyOutputs
          /\ currentAgentIndex' = 0
          /\ posted'[1] = SetAgentSequence(agentSequence')
          /\ IF agentSequence' = <<>>
               THEN invocations' = invocations
               ELSE /\ posted' = <<SetAgentSequence(agentSequence'),
                                   Ev("agentStarted", agentSequence'[1],
                                      "-", "-")>>
                    /\ \E inv \in invocations' :
                         /\ invocations' = invocations \cup {inv}
                         /\ inv.agent = agentSequence'[1]
                         /\ inv.run = run' /\ inv.pc = "call"]_vars

\* A second run has just been started over the outputs of the first.
C15_Witness ==
  /\ run = 2 /\ returned # {}
  /\ agentSequence # <<>>
  /\ posted = <<SetAgentSequence(agentSequence),
                Ev("agentStarted", agentSequence[1], "-", "-")>>
  /\ agentOutputs = EmptyOutputs
  /\ currentAgentIndex = 0

\* C16: when the human resets the process from the webview, the run is
\* abandoned: the controller is idle again, with no position, no sequence,
\* no inputs and an empty store.
C16_ResetAbandonsRun ==
  [][completionPanel /\ ~completionPanel' =>
       /\ currentAgentIndex' = -1
       /\ agentSequence' = <<>>
       /\ initialInputs' = Null
       /\ agentOutputs' = EmptyOutputs]_vars

\* C17: a dispatch that finds no store entry for a predecessor fails with a
\* missing-dependency error: an error naming the agent is posted and no
\* request is sent.
C17_MissingDependencyFails ==
  [][\A i \in 1..Len(posted') :
       LET agent == posted'[i].agent IN
       /\ posted'[i].command = "agentStarted"
       /\ \E q \in Predecessors(agent) : agentOutputs'[q] = Undefined
       => /\ Posts(posted', "error", agent)
          /\ \A inv \in invocations' \ invocations : inv.agent # agent]_vars

\* The stored value of a task is value and has been acknowledged.
StoredAndAcked(agent, task, value) ==
  /\ task \in DOMAIN agentOutputs[agent].m
  /\ agentOutputs[agent].m[task] = value
  /\ <<agent, task, value>> \in acked

\* C18: validateTask called again with the value that is stored for the
\* task and was already acknowledged leaves the task's value, and the whole
\* store, as they were; this holds for the command and for the calls of the
\* review loop.
C18_RevalidationIdempotent ==
  [][/\ \A c \in taskCalls \ taskCalls' :
          /\ Posts(posted', "taskValidated", c.agentName)
          /\ StoredAndAcked(c.agentName, c.taskName, c.output)
          => agentOutputs' = agentOutputs
     /\ \A v \in validations \ validations' :
          /\ taskCalls' = taskCalls
          /\ Posts(posted', "taskValidated", v.agent)
          /\ StoredAndAcked(v.agent, v.keys[v.idx], v.value)
          => agentOutputs' = agentOutputs]_vars

\* A validateTask command for a task of a validated agent, carrying the
\* value the review had already stored and had acknowledged, has just been
\* acknowledged.
C18_Witness ==
  \E a \in validatedAgents :
    /\ run = 1 /\ nCommands = 2
    /\ taskCalls = {} /\ validations = {}
    /\ posted = <<Ev("taskValidated", a, "t1", "-")>>
    /\ agentOutputs[a] = Obj([k \in {"t1"} |-> "edited"])
    /\ <<a, "t1", "edited">> \in acked

\* C19: the late result of a request whose run has been replaced by a new
\* start is discarded: it is not written to the new run's store, opens no
\* review, and posts neither validateAgent nor an error.
C19_LateResultDiscarded ==
  [][\A inv \in invocations \ invocations' :
       inv.run # run /\ run' = run =>
         /\ agentOutputs' = agentOutputs
         /\ tempFilePaths' = tempFilePaths
         /\ validatePrompts' = validatePrompts
         /\ posted' = <<>>]_vars

\* The store after differs from the store before in nothing but the value
\* of one task of one agent.
OnlyCellChanged(agent, task, value) ==
  /\ \A a \in Agents \ {agent} : agentOutputs'[a] = agentOutputs[a]
  /\ agentOutputs'[agent].t = agentOutputs[agent].t
  /\ DOMAIN agentOutputs'[agent].m = DOMAIN agentOutputs[agent].m \cup {task}
  /\ \A k \in DOMAIN agentOutputs[agent].m \ {task} :
       agentOutputs'[agent].m[k] = agentOutputs[agent].m[k]
  /\ agentOutputs'[agent].m[task] = value

\* C20: a validateTask command is processed while agents' requests and
\* reviews are suspended, and its effect is narrow: acknowledged, it changes
\* only the stored value of the task it names; when the request fails or
\* the agent has no entry, the store is unchanged and an error is posted.
\* Position, sequence, inputs and the suspended calls are never touched.
C20_ValidateTaskNarrow ==
  /\ [](\A c \in taskCalls : ENABLED HostStep(TaskCmdAck(c)))
  /\ [][\A c \in taskCalls \ taskCalls' :
          /\ UNCHANGED <<currentAgentIndex, agentSequence, initialInputs,
                         tempFilePaths, invocations, validatePrompts,
                         continuePrompts, validations>>
          /\ \/ /\ posted' = <<Ev("taskValidated", c.agentName,
                                  c.taskName, "-")>>
                /\ OnlyCellChanged(c.agentName, c.taskName, c.output)
                /\ agentOutputs[c.agentName] # Undefined
             \/ /\ Len(posted') = 1 /\ posted'[1].command = "error"
                /\ agentOutputs' = agentOutputs]_vars

\* A validateTask command has been acknowledged and has changed one task of
\* an agent's entry while a call of processNextAgent is suspended.
C20_Witness ==
  \E a \in Agents :
    /\ posted = <<Ev("taskValidated", a, "t2", "-")>>
    /\ agentOutputs[a] = Obj([k \in TaskNames |->
                                IF k = "t2" THEN "edited" ELSE "raw"])
    /\ invocations # {}
    /\ taskCalls = {}

\* C21: the position stays within -1..Len(agentSequence); within a run it
\* never decreases and grows by exactly 1 with every dispatch; and
\* agentsCompleted is posted at most once per run, whatever commands arrive
\* after completion.
C21_PositionInRange ==
  /\ [](/\ currentAgentIndex \in (-1)..Len(agentSequence)
        /\ completions <= 1)
  /\ [][run' = run =>
          /\ currentAgentIndex' \in {currentAgentIndex, currentAgentIndex + 1}
          /\ (\E inv \in invocations' \ invocations : inv.pc = "call")
               => currentAgentIndex' = currentAgentIndex + 1]_vars

\* Progress: once a run has been started, agentsCompleted is eventually
\* posted, when every request succeeds and the human validates and
\* continues each agent.
Progress == (run = 1) ~> (completions = 1)

\* C22: when every request succeeds and the human validates and continues
\* each agent the run reaches agentsCompleted (Progress, under LiveSpec);
\* conversely, once the human has dismissed the 'Validate' or 'Continue'
\* notification of the current position, the position does not move until
\* a new webview command arrives.
C22_DismissalStalls ==
  [][dismissedAt # -1 /\ nCommands' = nCommands =>
       currentAgentIndex' = currentAgentIndex]_vars

====
